---- MODULE Spec2Model ----
(***************************************************************************)
(* Model of "weather art.py": WeatherDataVisualizer and main().            *)
(*                                                                         *)
(* Numbers.  Readings (temperature, humidity, wind_speed) are kept in      *)
(* hundredths of a unit.  Every derived quantity is an exact fraction     *)
(* [num, den] with den >= 0; the fraction 0/0 is the float NaN that numpy  *)
(* yields for 0.0 / 0.0.  Phases are fractions of pi.                      *)
(***************************************************************************)
EXTENDS Integers, Sequences, FiniteSets, TLC

VARIABLES
    pc,          \* position of main()
    data,        \* self.data: the series (<<>> before the constructor ran)
    ani,         \* the FuncAnimation made by create_animation (<<>> or <<a>>)
    frame,       \* next frame counter value the animation driver supplies
    last_frame,  \* argument of the latest update call (<<>> or <<f>>)
    out,         \* latest result of process_data (<<>> or <<r>>)
    norm_temp,   \* update's local norm_temp of the latest call (<<>> or <<n>>)
    lines,       \* self.lines
    date_text,   \* self.date_text (<<>> is the empty text)
    info_text,   \* self.info_text (<<>> is the empty text)
    passOut,     \* process_data results of the current pass, in call order
    first0,      \* result of the first process_data call for frame 0 (<<>> or <<r>>)
    looped,      \* the interactive animation has restarted at least once
    mp4Attempts, \* calls of ani.save(..., writer='ffmpeg')
    gifAttempts, \* calls of ani.save(..., writer='pillow')
    saved,       \* export files completely written
    log          \* outcome messages printed by main()

vars == <<pc, data, ani, frame, last_frame, out, norm_temp, lines, date_text,
          info_text, passOut, first0, looped, mp4Attempts, gifAttempts, saved, log>>

(***************************************************************************)
(* Program constants and bounds                                            *)
(***************************************************************************)
\* range(30): number of synthetic days
Days == 30

\* range(5): number of waveform lines
NumLines == 5

\* Largest noise outlier drawn, in standard deviations
MaxSigmas == 9

(***************************************************************************)
(* Fractions                                                               *)
(***************************************************************************)
Frac(n, d) == [num |-> n, den |-> d]

IsNaN(a) == a.den = 0

\* a <= b on floats: false whenever an operand is NaN
FLeq(a, b) == a.den > 0 /\ b.den > 0 /\ a.num * b.den <= b.num * a.den

FEq(a, b) == a.den > 0 /\ b.den > 0 /\ a.num * b.den = b.num * a.den

\* mathematical floor of a fraction
Floor(a) == a.num \div a.den

Abs(x) == IF x < 0 THEN -x ELSE x

(***************************************************************************)
(* generate_sample_data                                                    *)
(***************************************************************************)
\* 100 * sin(linspace(0, 2*pi, 30)), rounded
SinTemp ==
    <<0, 21, 42, 61, 76, 88, 96, 100, 99, 93, 83, 69, 52, 32, 11,
      -11, -32, -52, -69, -83, -93, -99, -100, -96, -88, -76, -61, -42, -21, 0>>

\* 100 * sin(linspace(0, 2*pi, 30) + 0.5), rounded
SinHumidity ==
    <<48, 66, 80, 91, 98, 100, 97, 90, 79, 64, 46, 26, 4, -17, -38,
      -57, -73, -86, -95, -100, -99, -94, -85, -72, -55, -36, -15, 7, 28, 48>>

\* 100 * sin(linspace(0, 2*pi, 30) + 1), rounded
SinWind ==
    <<84, 94, 99, 100, 96, 87, 75, 59, 40, 19, -3, -24, -44, -62, -78,
      -89, -97, -100, -98, -92, -81, -67, -49, -30, -8, 13, 34, 54, 71, 84>>

Fields == {"temperature", "humidity", "wind_speed"}

\* standard deviation of np.random.normal for each field, in hundredths
Sigma(field) == IF field = "humidity" THEN 300 ELSE 100

FieldNo(field) ==
    IF field = "temperature" THEN 0 ELSE IF field = "humidity" THEN 1 ELSE 2

\* days (0-based) on which the modelled draws place their outlier: the first
\* and the last day, the day of the highest humidity base and the day of the
\* lowest wind base
OutlierDays == {0, 5, 17, Days - 1}

\* A bounded family of outcomes of the three np.random.normal(0, s, 30)
\* draws: an optional background of small deviations on every day (jitter),
\* one outlier of `level` standard deviations in one field on one day, and
\* the draw that cancels the temperature sinusoid exactly (cancel).
NoiseDraws ==
    {[field |-> f, day |-> d, level |-> l, jitter |-> j, cancel |-> FALSE] :
        f \in Fields, d \in OutlierDays,
        l \in {-MaxSigmas, 0, MaxSigmas}, j \in 0..1}
    \cup {[field |-> "humidity", day |-> 0, level |-> 0, jitter |-> 0,
           cancel |-> TRUE]}

\* the noise value of `field` on day i (0-based) under the draw `noise`
Draw(noise, field, i) ==
    IF noise.cancel /\ field = "temperature"
    THEN -5 * SinTemp[i + 1]
    ELSE noise.jitter * (Sigma(field) \div 4)
             * (((i * 7 + FieldNo(field) * 3) % 5) - 2)
         + (IF noise.field = field /\ noise.day = i
            THEN noise.level * Sigma(field) ELSE 0)

\* fault: the wind speed is not rectified
WindSpeedSigned(base, n) == base + n

\* np.abs(base_wind + noise)
WindSpeed(base, n) == Abs(base + n)

GenerateSampleData(noise) ==
    [i \in 1..Days |->
        [date        |-> i - 1,    \* days before now
         temperature |-> 2000 + 5 * SinTemp[i] + Draw(noise, "temperature", i - 1),
         humidity    |-> 6000 + 15 * SinHumidity[i] + Draw(noise, "humidity", i - 1),
         wind_speed  |-> WindSpeed(500 + 3 * SinWind[i],
                                   Draw(noise, "wind_speed", i - 1))]]

(***************************************************************************)
(* process_data                                                            *)
(***************************************************************************)
\* the temperatures of the first n readings
Temperatures(d, n) == {d[i].temperature : i \in 1..n}

\* fault: the minimum misses the last reading
TempMinSkipLast(d) ==
    CHOOSE m \in Temperatures(d, Len(d) - 1) :
        \A t \in Temperatures(d, Len(d) - 1) : m <= t

\* self.data['temperature'].min()
TempMin(d) ==
    CHOOSE m \in Temperatures(d, Len(d)) : \A t \in Temperatures(d, Len(d)) : m <= t

\* self.data['temperature'].max()
TempMax(d) ==
    CHOOSE m \in Temperatures(d, Len(d)) : \A t \in Temperatures(d, Len(d)) : t <= m

\* fault: every reading is held for two frames instead of replaying the cycle
FrameIndexHalved(d, f) == f \div 2

\* frame % len(self.data)
FrameIndex(d, f) == f % Len(d)

\* 0.5 + 1.5 * (temp - temp_min) / (temp_max - temp_min)
Frequency(temp, temp_min, temp_max) ==
    Frac((temp_max - temp_min) + 3 * (temp - temp_min), 2 * (temp_max - temp_min))

\* fault: the humidity is not divided by 100
AmplitudeUnscaled(humidity) == Frac(50 + humidity, 100)

\* 0.5 + 1.0 * humidity / 100
Amplitude(humidity) == Frac(5000 + humidity, 10000)

\* 1 + wind / 5
Complexity(wind) == Frac(500 + wind, 500)

\* fault: the amplitude is averaged with the one of the previous call
ProcessDataSmoothed(d, f) ==
    LET idx == FrameIndex(d, f)
        a   == Amplitude(d[idx + 1].humidity)
    IN  [idx        |-> idx,
         frequency  |-> Frequency(d[idx + 1].temperature, TempMin(d), TempMax(d)),
         amplitude  |-> IF out = <<>> THEN a
                        ELSE Frac(a.num + out[1].amplitude.num, 2 * a.den),
         complexity |-> Complexity(d[idx + 1].wind_speed)]

ProcessData(d, f) ==
    LET idx == FrameIndex(d, f)
    IN  [idx        |-> idx,
         frequency  |-> Frequency(d[idx + 1].temperature, TempMin(d), TempMax(d)),
         amplitude  |-> Amplitude(d[idx + 1].humidity),
         complexity |-> Complexity(d[idx + 1].wind_speed)]

(***************************************************************************)
(* generate_waveform                                                       *)
(***************************************************************************)
\* Python int(): truncation toward zero
IntTrunc(a) ==
    IF a.num >= 0 THEN a.num \div a.den ELSE -((-a.num) \div a.den)

\* fault: range(1, int(complexity))
HarmonicCountShort(complexity) == IntTrunc(complexity) - 1

\* range(1, int(complexity) + 1)
HarmonicCount(complexity) == IntTrunc(complexity)

\* line_idx * np.pi/2, in units of pi
LineOffset(line_idx) == Frac(line_idx, 2)

\* amplitude / (i * 2)
HarmonicAmp(amplitude, i) == Frac(amplitude.num, amplitude.den * (i * 2))

\* fault: the harmonic frequency is the base frequency divided by i
HarmonicFreqDivided(frequency, i) == Frac(frequency.num, frequency.den * i)

\* frequency * (i + 0.5)
HarmonicFreq(frequency, i) == Frac(frequency.num * (2 * i + 1), frequency.den * 2)

\* line_idx * np.pi / (i + 1), in units of pi
PhaseShift(line_idx, i) == Frac(line_idx, i + 1)

\* The sampled curve y is kept as the terms it is the sum of: the base sine,
\* one sine per harmonic, and Gaussian noise of the given standard deviation.
GenerateWaveform(frequency, amplitude, complexity, line_idx) ==
    [base      |-> [amp   |-> amplitude,
                    freq  |-> frequency,
                    phase |-> LineOffset(line_idx)],
     harmonics |-> [i \in 1..HarmonicCount(complexity) |->
                    [amp   |-> HarmonicAmp(amplitude, i),
                     freq  |-> HarmonicFreq(frequency, i),
                     phase |-> PhaseShift(line_idx, i)]],
     noise_sd  |-> Frac(complexity.num, complexity.den * 20)]

(***************************************************************************)
(* update                                                                  *)
(***************************************************************************)
\* (temperature[idx] - min) / (max - min), as update computes it
NormTemp(d, idx) ==
    Frac(d[idx + 1].temperature - TempMin(d), TempMax(d) - TempMin(d))

\* self.cmap(norm_temp): entry of the 256-colour lookup table of the gradient
Cmap(n) ==
    IF IsNaN(n) THEN [kind |-> "bad", index |-> 0]
    ELSE IF n.num < 0 THEN [kind |-> "under", index |-> 0]
    ELSE IF n.num > n.den THEN [kind |-> "over", index |-> 255]
    ELSE [kind |-> "lut",
          index |-> IF n.num = n.den THEN 255 ELSE (256 * n.num) \div n.den]

\* f"{v:.1f}": tenths, rounded half to even
Fmt1(v) ==
    LET q == v \div 10
        r == v % 10
    IN  IF r > 5 \/ (r = 5 /\ q % 2 = 1) THEN q + 1 ELSE q

\* the five lines as the loop of update leaves them; n is norm_temp, which the
\* loop computes anew for every line from the same series and index
UpdatedLines(n, r) ==
    [i \in 1..NumLines |->
        [wave  |-> <<GenerateWaveform(r.frequency, r.amplitude, r.complexity, i - 1)>>,
         color |-> <<Cmap(n)>>,
         alpha |-> Frac(NumLines + (i - 1), 2 * NumLines)]]

InfoText(d, idx) ==
    [temp     |-> Fmt1(d[idx + 1].temperature),
     humidity |-> Fmt1(d[idx + 1].humidity),
     wind     |-> Fmt1(d[idx + 1].wind_speed)]

\* update(f): process the frame, redraw the five lines and the two texts.
\* The series itself is only read.
Update(f) ==
    \E r \in {ProcessData(data, f)} :
        \E n \in {NormTemp(data, r.idx)} :
            /\ last_frame' = <<f>>
            /\ out' = <<r>>
            /\ norm_temp' = <<n>>
            /\ lines' = UpdatedLines(n, r)
            /\ date_text' = <<data[r.idx + 1].date>>
            /\ info_text' = <<InfoText(data, r.idx)>>
            /\ passOut' = Append(passOut, r)
            /\ first0' = IF f = 0 /\ first0 = <<>> THEN <<r>> ELSE first0
            /\ data' = data

(***************************************************************************)
(* main                                                                    *)
(***************************************************************************)
Init ==
    /\ pc = "start"
    /\ data = <<>>
    /\ ani = <<>>
    /\ frame = 0
    /\ last_frame = <<>>
    /\ out = <<>>
    /\ norm_temp = <<>>
    /\ lines = <<>>
    /\ date_text = <<>>
    /\ info_text = <<>>
    /\ passOut = <<>>
    /\ first0 = <<>>
    /\ looped = FALSE
    /\ mp4Attempts = 0
    /\ gifAttempts = 0
    /\ saved = {}
    /\ log = <<>>

\* os.makedirs('output', exist_ok=True); an OSError is not caught
MakeDirs ==
    /\ pc = "start"
    /\ pc' \in {"construct", "crashed"}
    /\ UNCHANGED <<data, ani, frame, last_frame, out, norm_temp, lines, date_text,
                   info_text, passOut, first0, looped, mp4Attempts, gifAttempts,
                   saved, log>>

\* WeatherDataVisualizer(): generate_sample_data and setup_visual_elements
Construct ==
    /\ pc = "construct"
    /\ \E noise \in NoiseDraws : data' = GenerateSampleData(noise)
    /\ lines' = [i \in 1..NumLines |-> [wave |-> <<>>, color |-> <<>>, alpha |-> Frac(7, 10)]]
    /\ date_text' = <<>>
    /\ info_text' = <<>>
    /\ pc' = "animate"
    /\ UNCHANGED <<ani, frame, last_frame, out, norm_temp, passOut, first0, looped,
                   mp4Attempts, gifAttempts, saved, log>>

\* fault: frames = len(self.data), a single cycle
CreateAnimationOnePass ==
    /\ pc = "animate"
    /\ ani' = <<[frames |-> Len(data), interval |-> 300, repeat |-> TRUE]>>
    /\ pc' = "try"
    /\ UNCHANGED <<data, frame, last_frame, out, norm_temp, lines, date_text,
                   info_text, passOut, first0, looped, mp4Attempts, gifAttempts,
                   saved, log>>

\* visualizer.create_animation()
CreateAnimation ==
    /\ pc = "animate"
    /\ ani' = <<[frames |-> Len(data) * 2, interval |-> 300, repeat |-> TRUE]>>
    /\ pc' = "try"
    /\ UNCHANGED <<data, frame, last_frame, out, norm_temp, lines, date_text,
                   info_text, passOut, first0, looped, mp4Attempts, gifAttempts,
                   saved, log>>

\* try: ani.save('output/weather_visualization.mp4', writer='ffmpeg', ...)
BeginSaveMP4 ==
    /\ pc = "try"
    /\ pc' = "save_mp4"
    /\ mp4Attempts' = mp4Attempts + 1
    /\ frame' = 0
    /\ passOut' = <<>>
    /\ UNCHANGED <<data, ani, last_frame, out, norm_temp, lines, date_text,
                   info_text, first0, looped, gifAttempts, saved, log>>

\* ani.save draws the frames 0 .. frames-1 once, in order
SaveFrame ==
    /\ pc \in {"save_mp4", "save_gif"}
    /\ frame < ani[1].frames
    /\ Update(frame)
    /\ frame' = frame + 1
    /\ UNCHANGED <<pc, ani, looped, mp4Attempts, gifAttempts, saved, log>>

\* the MP4 export returns normally; main goes on to plt.show()
SaveMP4Done ==
    /\ pc = "save_mp4"
    /\ frame = ani[1].frames
    /\ saved' = saved \cup {"mp4"}
    /\ log' = Append(log, "mp4_saved")
    /\ pc' = "show"
    /\ frame' = 0
    /\ passOut' = <<>>
    /\ UNCHANGED <<data, ani, last_frame, out, norm_temp, lines, date_text,
                   info_text, first0, looped, mp4Attempts, gifAttempts>>

\* fault: no fallback, a failed MP4 export goes straight to plt.show()
SaveMP4RaiseNoFallback ==
    /\ pc = "save_mp4"
    /\ log' = Append(log, "mp4_failed")
    /\ pc' = "show"
    /\ frame' = 0
    /\ passOut' = <<>>
    /\ UNCHANGED <<data, ani, last_frame, out, norm_temp, lines, date_text,
                   info_text, first0, looped, mp4Attempts, gifAttempts, saved>>

\* the MP4 export raises, at any point of the call: except Exception reports
\* it and calls ani.save('output/weather_visualization.gif', writer='pillow')
SaveMP4Raise ==
    /\ pc = "save_mp4"
    /\ log' = Append(log, "mp4_failed")
    /\ pc' = "save_gif"
    /\ gifAttempts' = gifAttempts + 1
    /\ frame' = 0
    /\ passOut' = <<>>
    /\ UNCHANGED <<data, ani, last_frame, out, norm_temp, lines, date_text,
                   info_text, first0, looped, mp4Attempts, saved>>

\* the GIF export returns normally
SaveGIFDone ==
    /\ pc = "save_gif"
    /\ frame = ani[1].frames
    /\ saved' = saved \cup {"gif"}
    /\ log' = Append(log, "gif_saved")
    /\ pc' = "show"
    /\ frame' = 0
    /\ passOut' = <<>>
    /\ UNCHANGED <<data, ani, last_frame, out, norm_temp, lines, date_text,
                   info_text, first0, looped, mp4Attempts, gifAttempts>>

\* fault: the exception of the GIF export is not caught
SaveGIFRaiseFatal ==
    /\ pc = "save_gif"
    /\ log' = Append(log, "gif_failed")
    /\ pc' = "crashed"
    /\ UNCHANGED <<data, ani, frame, last_frame, out, norm_temp, lines, date_text,
                   info_text, passOut, first0, looped, mp4Attempts, gifAttempts,
                   saved>>

\* the GIF export raises: the inner except Exception reports it and main
\* falls through to plt.show()
SaveGIFRaise ==
    /\ pc = "save_gif"
    /\ log' = Append(log, "gif_failed")
    /\ pc' = "show"
    /\ frame' = 0
    /\ passOut' = <<>>
    /\ UNCHANGED <<data, ani, last_frame, out, norm_temp, lines, date_text,
                   info_text, first0, looped, mp4Attempts, gifAttempts, saved>>

\* plt.show(): a timer tick of the interactive animation draws the next frame
Step ==
    /\ pc = "show"
    /\ frame < ani[1].frames
    /\ Update(frame)
    /\ frame' = frame + 1
    /\ UNCHANGED <<pc, ani, looped, mp4Attempts, gifAttempts, saved, log>>

\* the frame sequence is exhausted: with repeat the animation starts over,
\* without it the animation stops
Exhausted ==
    /\ pc = "show"
    /\ frame = ani[1].frames
    /\ IF ani[1].repeat
       THEN pc' = pc /\ frame' = 0 /\ passOut' = <<>> /\ looped' = TRUE
       ELSE pc' = "stopped" /\ UNCHANGED <<frame, passOut, looped>>
    /\ UNCHANGED <<data, ani, last_frame, out, norm_temp, lines, date_text,
                   info_text, first0, mp4Attempts, gifAttempts, saved, log>>

\* the display window is closed: plt.show() returns, main ends and the figure,
\* the animation and the drawn frame are gone
Close ==
    /\ pc \in {"show", "stopped"}
    /\ pc' = "closed"
    /\ ani' = <<>>
    /\ frame' = 0
    /\ last_frame' = <<>>
    /\ out' = <<>>
    /\ norm_temp' = <<>>
    /\ lines' = <<>>
    /\ date_text' = <<>>
    /\ info_text' = <<>>
    /\ passOut' = <<>>
    /\ UNCHANGED <<data, first0, looped, mp4Attempts, gifAttempts, saved, log>>

Next ==
    \/ MakeDirs
    \/ Construct
    \/ CreateAnimation
    \/ BeginSaveMP4
    \/ SaveFrame
    \/ SaveMP4Done
    \/ SaveMP4Raise
    \/ SaveGIFDone
    \/ SaveGIFRaise
    \/ Step
    \/ Exhausted
    \/ Close

Spec == Init /\ [][Next]_vars

\* the steps of main() before plt.show(): a sequential program, in which every
\* call returns or raises and the export draws its frames
MainStep ==
    \/ MakeDirs
    \/ Construct
    \/ CreateAnimation
    \/ BeginSaveMP4
    \/ SaveFrame
    \/ SaveMP4Done
    \/ SaveMP4Raise
    \/ SaveGIFDone
    \/ SaveGIFRaise

\* main() keeps running until plt.show().  Nothing obliges the user to close
\* the window or the timer to keep ticking.
FairSpec == Init /\ [][Next]_vars /\ WF_vars(MainStep)

(***************************************************************************)
(* Properties                                                              *)
(***************************************************************************)
Logged(msg) == \E i \in 1..Len(log) : log[i] = msg

Half == Frac(1, 2)

\* smallest and largest temperature of a series, as sets define them
SeriesMin(d) ==
    CHOOSE m \in {d[i].temperature : i \in 1..Len(d)} :
        \A i \in 1..Len(d) : m <= d[i].temperature

SeriesMax(d) ==
    CHOOSE m \in {d[i].temperature : i \in 1..Len(d)} :
        \A i \in 1..Len(d) : d[i].temperature <= m

\* C1: a failed MP4 export is followed by exactly one GIF attempt, a
\* successful MP4 export by none, and no run makes more than one attempt of
\* either kind.
C1_ExportFallback ==
    /\ mp4Attempts <= 1
    /\ gifAttempts <= 1
    /\ Logged("mp4_failed") => gifAttempts = 1
    /\ Logged("mp4_saved") => gifAttempts = 0
    /\ pc \in {"save_gif", "show", "stopped", "closed"} => mp4Attempts = 1

\* both exports failed, after one attempt each
C1_Witness ==
    /\ pc = "show"
    /\ log = <<"mp4_failed", "gif_failed">>
    /\ mp4Attempts = 1
    /\ gifAttempts = 1

\* C2 (safety part): the display step is reached only when every export
\* attempt that was started has reported its outcome, and no export outcome
\* ends the program.
C2_DisplayAfterExports ==
    /\ pc \in {"show", "stopped", "closed"} =>
          /\ mp4Attempts = 1
          /\ Len(log) = mp4Attempts + gifAttempts
          /\ log \in {<<"mp4_saved">>, <<"mp4_failed", "gif_saved">>,
                      <<"mp4_failed", "gif_failed">>}
    /\ mp4Attempts > 0 => pc # "crashed"

\* C2: whatever the export outcomes, main() eventually reaches plt.show(),
\* and only after all export attempts have finished; an export failure is
\* never fatal.
C2_ReachesDisplay ==
    /\ []C2_DisplayAfterExports
    /\ (pc = "save_mp4") ~> (pc = "show")
    /\ (pc = "save_gif") ~> (pc = "show")

\* the display step reached after both exports have failed
C2_Witness ==
    /\ pc = "show"
    /\ log = <<"mp4_failed", "gif_failed">>
    /\ saved = {}
    /\ out # <<>>

\* C3: the series has exactly 30 readings; update(frame) selects the reading
\* frame mod 30, and the parameters, the colour, the date and the readout of
\* that call all come from the reading at that index.
C3_FrameIndex ==
    /\ data # <<>> => Len(data) = 30
    /\ out # <<>> =>
          LET f   == last_frame[1]
              idx == out[1].idx
              rd  == data[idx + 1]
          IN  /\ idx = f % 30
              /\ idx \in 0..29
              /\ date_text = <<rd.date>>
              /\ info_text = <<[temp     |-> Fmt1(rd.temperature),
                                humidity |-> Fmt1(rd.humidity),
                                wind     |-> Fmt1(rd.wind_speed)]>>
              /\ out[1].amplitude.num = 5000 + rd.humidity
              /\ out[1].complexity.num = 500 + rd.wind_speed
              /\ norm_temp[1].num = rd.temperature - SeriesMin(data)

\* a frame of the second cycle has been drawn
C3_Witness ==
    /\ out # <<>>
    /\ last_frame = <<47>>
    /\ out[1].idx = 17

\* C4: every wind_speed of the series is >= 0, also when base + noise is
\* below zero, and so the complexity of every frame is >= 1.
C4_WindNonNegative ==
    /\ \A i \in 1..Len(data) : data[i].wind_speed >= 0
    /\ out # <<>> => FLeq(Frac(1, 1), out[1].complexity)

\* the reading drawn is one whose base + noise was below zero
C4_Witness ==
    /\ out # <<>>
    /\ LET i == out[1].idx + 1
           s == 500 + 3 * SinWind[i] - MaxSigmas * 100
       IN  s < 0 /\ data[i].wind_speed = -s

\* C5: when the largest temperature exceeds the smallest, the normalized
\* temperature of update (colour) and of process_data (frequency) is in
\* [0, 1]; the divisor is zero exactly when all temperatures are identical,
\* and then nothing guards the division: the result is NaN.
C5_NormalizedTemperature ==
    out # <<>> =>
        LET lo   == SeriesMin(data)
            hi   == SeriesMax(data)
            n    == norm_temp[1]
            freq == out[1].frequency
        IN  /\ hi > lo =>
                  /\ FLeq(Frac(0, 1), n) /\ FLeq(n, Frac(1, 1))
                  /\ FLeq(Half, freq) /\ FLeq(freq, Frac(2, 1))
                  /\ FEq(freq, Frac(n.den + 3 * n.num, 2 * n.den))
            /\ (n.den = 0) <=> (\A i, j \in 1..Len(data) :
                                   data[i].temperature = data[j].temperature)
            /\ (freq.den = 0) <=> (n.den = 0)
            /\ n.den = 0 => IsNaN(n) /\ IsNaN(freq) /\ lines[1].color[1].kind = "bad"

\* the hottest reading of a series with an outlier is drawn: norm_temp is 1
C5_Witness ==
    /\ out # <<>>
    /\ SeriesMax(data) > SeriesMin(data)
    /\ norm_temp[1].num = norm_temp[1].den
    /\ data[out[1].idx + 1].temperature > 3000

\* C6 as stated: frequency is in [0.5, 2.0] and amplitude in [0.5, 1.5] for
\* every series and every frame.
C6_Original ==
    out # <<>> =>
        /\ FLeq(Half, out[1].frequency) /\ FLeq(out[1].frequency, Frac(2, 1))
        /\ FLeq(Half, out[1].amplitude) /\ FLeq(out[1].amplitude, Frac(3, 2))

\* C6 amended: for a series whose temperatures are not all identical the
\* frequency is in [0.5, 2.0], by min-max normalization of the temperatures;
\* the amplitude is 0.5 + humidity / 100 of the selected reading, without any
\* normalization, and is in [0.5, 1.5] exactly when that humidity is in
\* [0, 100].
C6_Amended ==
    out # <<>> =>
        LET lo   == SeriesMin(data)
            hi   == SeriesMax(data)
            rd   == data[out[1].idx + 1]
            freq == out[1].frequency
            amp  == out[1].amplitude
        IN  /\ hi > lo =>
                  /\ FLeq(Half, freq) /\ FLeq(freq, Frac(2, 1))
                  /\ FEq(freq, Frac((hi - lo) + 3 * (rd.temperature - lo), 2 * (hi - lo)))
            /\ FEq(amp, Frac(5000 + rd.humidity, 10000))
            /\ (FLeq(Half, amp) /\ FLeq(amp, Frac(3, 2)))
                   <=> (0 <= rd.humidity /\ rd.humidity <= 10000)

\* a reading whose humidity the noise took above 100 is drawn
C6_Witness ==
    /\ out # <<>>
    /\ data[out[1].idx + 1].humidity > 10000
    /\ ~FLeq(out[1].amplitude, Frac(3, 2))

\* C7: the number of harmonic terms of every waveform update draws is
\* floor(complexity), and is at least 1.
C7_HarmonicCount ==
    out # <<>> =>
        \A l \in 1..Len(lines) :
            /\ Len(lines[l].wave[1].harmonics) = Floor(out[1].complexity)
            /\ Len(lines[l].wave[1].harmonics) >= 1

\* a frame whose complexity is between 3 and 4 is drawn with 3 harmonics
C7_Witness ==
    /\ out # <<>>
    /\ Len(lines) = 5
    /\ out[1].complexity.num > 3 * out[1].complexity.den
    /\ Len(lines[5].wave[1].harmonics) = 3

\* frame 0 gives what its first call gave, and a frame of the second cycle
\* gives what the frame of the same reading gave in the first cycle
C8_Repeatable ==
    out # <<>> =>
        LET f == last_frame[1]
        IN  /\ f = 0 => out = first0
            /\ Len(passOut) = f + 1 =>
                  /\ out[1] = passOut[f + 1]
                  /\ f >= 30 => out[1] = passOut[f + 1 - 30]

C9_Original ==
    out # <<>> =>
        \A l \in 1..Len(lines) :
            LET w == lines[l].wave[1]
            IN  \A i \in 1..Len(w.harmonics) :
                    /\ FEq(w.harmonics[i].amp, Frac(w.base.amp.num, w.base.amp.den * i))
                    /\ FEq(w.harmonics[i].freq, Frac(w.base.freq.num, w.base.freq.den * i))
                    /\ FEq(w.harmonics[i].phase,
                           Frac(w.base.phase.num, w.base.phase.den * (i + 1)))

\* C9 amended: the base term of line l has the phase line_offset = l * pi/2;
\* harmonic i has the base amplitude divided by 2i, the base frequency
\* multiplied by (i + 0.5), and the phase l * pi / (i + 1), which is
\* 2 * line_offset / (i + 1).
C9_Amended ==
    out # <<>> =>
        \A l \in 1..Len(lines) :
            LET w == lines[l].wave[1]
            IN  /\ FEq(w.base.phase, Frac(l - 1, 2))
                /\ w.base.amp = out[1].amplitude
                /\ w.base.freq = out[1].frequency
                /\ \A i \in 1..Len(w.harmonics) :
                       LET h == w.harmonics[i]
                       IN  /\ FEq(h.amp, Frac(w.base.amp.num, w.base.amp.den * 2 * i))
                           /\ \/ IsNaN(w.base.freq) /\ IsNaN(h.freq)
                              \/ FEq(h.freq, Frac(w.base.freq.num * (2 * i + 1),
                                                  w.base.freq.den * 2))
                           /\ FEq(h.phase, Frac(2 * w.base.phase.num,
                                                w.base.phase.den * (i + 1)))

\* the last line is drawn with three harmonics
C9_Witness ==
    /\ out # <<>>
    /\ Len(lines) = 5
    /\ Len(lines[5].wave[1].harmonics) = 3
    /\ ~IsNaN(out[1].frequency)
    /\ lines[5].wave[1].harmonics[3].phase = Frac(4, 4)

\* C10: the animation has 2 * 30 = 60 frames and repeat enabled; a pass of
\* the frame counter selects the readings 0..29, 0..29 in this order, every
\* reading exactly twice; after a pass the interactive animation starts over
\* and never stops while the window is open.
C10_TwoCycles ==
    /\ ani # <<>> => ani[1].frames = 60 /\ ani[1].frames = 2 * Len(data) /\ ani[1].repeat
    /\ pc \in {"save_mp4", "save_gif", "show"} =>
          /\ frame \in 0..60
          /\ Len(passOut) = frame
          /\ \A i \in 1..Len(passOut) : passOut[i].idx = (i - 1) % 30
          /\ frame = 60 =>
                \A idx \in 0..29 :
                    Cardinality({i \in 1..60 : passOut[i].idx = idx}) = 2
    /\ pc # "stopped"
    /\ looped => pc \in {"show", "closed"}

\* a whole pass has been drawn after the interactive animation has restarted
C10_Witness ==
    /\ pc = "show"
    /\ looped
    /\ frame = 60
    /\ Len(passOut) = 60

====
